---- MODULE Spec2Model ----
(***************************************************************************)
(* Verification model of the slide-deck generator:                         *)
(*   app.py                 the /generate request handler                  *)
(*   utils/bedrock_utils.py generate_text / generate_image (normalizer)    *)
(*   utils/ppt_utils.py     create_ppt (deck assembler)                    *)
(*                                                                         *)
(* Python strings are sequences of one-character strings.  JSON values are *)
(* tagged records [t, v]; a mapping keeps its (key, value) pairs in        *)
(* insertion order, as a Python dict does.                                 *)
(***************************************************************************)
EXTENDS Integers, Sequences, FiniteSets, TLC

VARIABLES
    mode,          \* which entry point this behaviour exercises
    pc,            \* position of the control flow
    form,          \* request.form: the `topic` and `slides` fields
    topic,         \* app.py: topic after .strip()
    outline_text,  \* app.py: value returned by generate_text
    attempts,      \* strings handed to json.loads by the handler (observation)
    data,          \* app.py: parsed outline
    idx,           \* app.py: 1-based position of the per-slide loop
    imgFailed,     \* slides whose image step failed (observation)
    calls,         \* order of collaborator invocations (observation)
    pptArg,        \* argument handed to create_ppt
    response,      \* what the request ended in
    resp,          \* bedrock_utils.py: what bedrock.invoke_model produced
    result         \* outcome of generate_text / generate_image

vars == <<mode, pc, form, topic, outline_text, attempts, data, idx,
          imgFailed, calls, pptArg, response, resp, result>>

--------------------------------------------------------------------------
(* Bounds of the model *)

MaxSlides == 3
MaxAffix == 1
MaxItems == 2
MaxDepth == 2

--------------------------------------------------------------------------
(* Python values *)

Str(c) == [t |-> "str", s |-> c]
Num(n) == [t |-> "num", n |-> n]
Bool(b) == [t |-> "bool", b |-> b]
Null == [t |-> "null"]
List(s) == [t |-> "list", items |-> s]
Dict(p) == [t |-> "dict", pairs |-> p]
Bytes(b) == [t |-> "bytes", bytes |-> b]

IsStr(x) == x.t = "str"
IsList(x) == x.t = "list"
IsDict(x) == x.t = "dict"

\* `k in d`
HasKey(d, k) == \E i \in 1..Len(d.pairs) : d.pairs[i][1] = k

\* d[k]
Get(d, k) == d.pairs[CHOOSE i \in 1..Len(d.pairs) : d.pairs[i][1] = k][2]

\* d[k] = x : an existing key keeps its position, a new key goes last
SetKey(d, k, x) ==
    IF HasKey(d, k)
      THEN Dict([i \in 1..Len(d.pairs) |->
                   IF d.pairs[i][1] = k THEN <<k, x>> ELSE d.pairs[i]])
      ELSE Dict(Append(d.pairs, <<k, x>>))

\* Python truthiness, `if x:`
Truthy(x) ==
    CASE x.t = "null" -> FALSE
      [] x.t = "bool" -> x.b
      [] x.t = "num" -> x.n # 0
      [] x.t = "str" -> Len(x.s) > 0
      [] x.t = "list" -> Len(x.items) > 0
      [] x.t = "dict" -> Len(x.pairs) > 0
      [] x.t = "bytes" -> Len(x.bytes) > 0

Ok(x) == [ok |-> TRUE, val |-> x]
Raise(e) == [ok |-> FALSE, err |-> e]

\* c * n
Rep(c, n) == [i \in 1..n |-> c]

SetMin(S) == CHOOSE k \in S : \A m \in S : k <= m

--------------------------------------------------------------------------
(* json.loads / json.dumps *)

Digits == <<"0", "1", "2", "3", "4", "5", "6", "7", "8", "9">>
IsDigit(c) == \E i \in 1..10 : Digits[i] = c
DigitVal(c) == (CHOOSE i \in 1..10 : Digits[i] = c) - 1

RECURSIVE SkipWs(_, _)
SkipWs(s, i) ==
    IF i <= Len(s) /\ s[i] \in {" ", "\n", "\t", "\r"}
      THEN SkipWs(s, i + 1)
      ELSE i

PFail == [ok |-> FALSE]
POk(x, n) == [ok |-> TRUE, val |-> x, next |-> n]

\* number of backslashes immediately before s[j], not going below s[lo]
RECURSIVE BackslashesBefore(_, _, _)
BackslashesBefore(s, lo, j) ==
    IF j > lo /\ s[j - 1] = "\\"
      THEN 1 + BackslashesBefore(s, lo, j - 1)
      ELSE 0

\* s[j] is not the second character of an escape
Unescaped(s, lo, j) == BackslashesBefore(s, lo, j) % 2 = 0

\* first position in a..b holding an unescaped quote, 0 when there is none;
\* lo is where the string literal's content starts
RECURSIVE ClosingQuote(_, _, _, _)
ClosingQuote(s, lo, a, b) ==
    IF a > b THEN 0
    ELSE IF \A m \in a..b : s[m] # "\"" THEN 0
    ELSE IF a = b THEN (IF Unescaped(s, lo, a) THEN a ELSE 0)
    ELSE LET mid == (a + b) \div 2
             left == ClosingQuote(s, lo, a, mid) IN
         IF left # 0 THEN left ELSE ClosingQuote(s, lo, mid + 1, b)

\* the same from s[a] to the end of s, searched a stretch at a time
RECURSIVE ClosingQuoteFrom(_, _, _)
ClosingQuoteFrom(s, lo, a) ==
    IF a > Len(s) THEN 0
    ELSE LET b == IF a + 63 < Len(s) THEN a + 63 ELSE Len(s)
             here == ClosingQuote(s, lo, a, b) IN
         IF here # 0 THEN here ELSE ClosingQuoteFrom(s, lo, b + 1)

\* what the character at s[j] of a literal's content stands for
Piece(s, lo, j) ==
    IF ~Unescaped(s, lo, j) THEN
        (CASE s[j] = "n" -> <<"\n">>
           [] s[j] = "t" -> <<"\t">>
           [] s[j] = "r" -> <<"\r">>
           [] OTHER -> <<s[j]>>)
    ELSE IF s[j] = "\\" THEN <<>>
    ELSE <<s[j]>>

\* the content s[a..b] of a string literal with its escapes resolved
RECURSIVE Unescape(_, _, _, _)
Unescape(s, lo, a, b) ==
    IF a > b THEN <<>>
    ELSE IF a = b THEN Piece(s, lo, a)
    ELSE IF \A m \in a..b : s[m] # "\\"
           THEN Piece(s, lo, a) \o SubSeq(s, a + 1, b)
    ELSE LET mid == (a + b) \div 2 IN
         Unescape(s, lo, a, mid) \o Unescape(s, lo, mid + 1, b)

\* the content s[a..b] is well formed: no raw control character, every
\* escape is one of \n \t \r \" \\ \/  (\b, \f and \u are left out)
ValidContent(s, a, b) ==
    \A m \in a..b :
      /\ s[m] \notin {"\n", "\t", "\r"}
      /\ (m > a /\ ~Unescaped(s, a, m))
           => s[m] \in {"n", "t", "r", "\"", "\\", "/"}

\* the string literal whose opening quote is at s[i - 1]
ScanString(s, i) ==
    LET close == ClosingQuoteFrom(s, i, i) IN
    IF close = 0 THEN PFail
    ELSE IF ~ValidContent(s, i, close - 1) THEN PFail
    ELSE POk(Str(Unescape(s, i, i, close - 1)), close + 1)

RECURSIVE ScanInt(_, _, _)
ScanInt(s, j, acc) ==
    IF j <= Len(s) /\ IsDigit(s[j])
      THEN ScanInt(s, j + 1, 10 * acc + DigitVal(s[j]))
      ELSE POk(Num(acc), j)

Keyword(s, i, w) ==
    /\ i + Len(w) - 1 <= Len(s)
    /\ SubSeq(s, i, i + Len(w) - 1) = w

RECURSIVE ParseValue(_, _), ParseElems(_, _, _), ParseMembers(_, _, _)

\* one JSON value starting at s[i] (leading whitespace already skipped)
ParseValue(s, i) ==
    IF i > Len(s) THEN PFail
    ELSE IF s[i] = "\"" THEN ScanString(s, i + 1)
    ELSE IF s[i] = "0" THEN POk(Num(0), i + 1)
    ELSE IF IsDigit(s[i]) THEN ScanInt(s, i, 0)
    ELSE IF Keyword(s, i, <<"n", "u", "l", "l">>) THEN POk(Null, i + 4)
    ELSE IF Keyword(s, i, <<"t", "r", "u", "e">>) THEN POk(Bool(TRUE), i + 4)
    ELSE IF Keyword(s, i, <<"f", "a", "l", "s", "e">>)
           THEN POk(Bool(FALSE), i + 5)
    ELSE IF s[i] = "[" THEN
        LET j == SkipWs(s, i + 1) IN
        IF j <= Len(s) /\ s[j] = "]" THEN POk(List(<<>>), j + 1)
        ELSE ParseElems(s, j, <<>>)
    ELSE IF s[i] = "{" THEN
        LET j == SkipWs(s, i + 1) IN
        IF j <= Len(s) /\ s[j] = "}" THEN POk(Dict(<<>>), j + 1)
        ELSE ParseMembers(s, j, Dict(<<>>))
    ELSE PFail

\* elements of an array, s[i] being the start of the next element
ParseElems(s, i, acc) ==
    LET e == ParseValue(s, i) IN
    IF ~e.ok THEN PFail
    ELSE LET j == SkipWs(s, e.next) IN
         IF j > Len(s) THEN PFail
         ELSE IF s[j] = "]" THEN POk(List(Append(acc, e.val)), j + 1)
         ELSE IF s[j] = ","
                THEN ParseElems(s, SkipWs(s, j + 1), Append(acc, e.val))
         ELSE PFail

\* members of an object, s[i] being the start of the next key
ParseMembers(s, i, acc) ==
    IF i > Len(s) \/ s[i] # "\"" THEN PFail
    ELSE LET k == ScanString(s, i + 1) IN
         IF ~k.ok THEN PFail
         ELSE LET c == SkipWs(s, k.next) IN
              IF c > Len(s) \/ s[c] # ":" THEN PFail
              ELSE LET e == ParseValue(s, SkipWs(s, c + 1)) IN
                   IF ~e.ok THEN PFail
                   ELSE LET j == SkipWs(s, e.next)
                            d == SetKey(acc, k.val.s, e.val) IN
                        IF j > Len(s) THEN PFail
                        ELSE IF s[j] = "}" THEN POk(d, j + 1)
                        ELSE IF s[j] = ","
                               THEN ParseMembers(s, SkipWs(s, j + 1), d)
                        ELSE PFail

\* json.loads(s) for a str s: one value, nothing but whitespace after it
Loads(s) ==
    LET e == ParseValue(s, SkipWs(s, 1)) IN
    IF e.ok /\ SkipWs(s, e.next) > Len(s) THEN Ok(e.val)
    ELSE Raise("JSONDecodeError")

EscapeChar(ch) ==
    CASE ch = "\"" -> <<"\\", "\"">>
      [] ch = "\\" -> <<"\\", "\\">>
      [] ch = "\n" -> <<"\\", "n">>
      [] ch = "\t" -> <<"\\", "t">>
      [] ch = "\r" -> <<"\\", "r">>
      [] OTHER -> <<ch>>

\* the body of a string literal; halves are escaped independently
RECURSIVE Escape(_)
Escape(c) ==
    IF c = <<>> THEN <<>>
    ELSE IF Len(c) = 1 THEN EscapeChar(c[1])
    ELSE IF \A i \in 1..Len(c) : c[i] \notin {"\"", "\\", "\n", "\t", "\r"}
           THEN c
    ELSE Escape(SubSeq(c, 1, Len(c) \div 2))
           \o Escape(SubSeq(c, Len(c) \div 2 + 1, Len(c)))

RECURSIVE DigitsOf(_)
DigitsOf(n) ==
    IF n < 10 THEN <<Digits[n + 1]>>
    ELSE DigitsOf(n \div 10) \o <<Digits[(n % 10) + 1]>>

Quote(c) == <<"\"">> \o Escape(c) \o <<"\"">>

RECURSIVE Dumps(_), DumpItems(_), DumpPairs(_)
\* json.dumps(x) with the default separators ", " and ": "
Dumps(x) ==
    CASE x.t = "str" -> Quote(x.s)
      [] x.t = "num" -> DigitsOf(x.n)
      [] x.t = "bool" -> IF x.b THEN <<"t", "r", "u", "e">>
                                ELSE <<"f", "a", "l", "s", "e">>
      [] x.t = "null" -> <<"n", "u", "l", "l">>
      [] x.t = "list" -> <<"[">> \o DumpItems(x.items) \o <<"]">>
      [] x.t = "dict" -> <<"{">> \o DumpPairs(x.pairs) \o <<"}">>

DumpItems(s) ==
    IF s = <<>> THEN <<>>
    ELSE IF Len(s) = 1 THEN Dumps(s[1])
    ELSE Dumps(s[1]) \o <<",", " ">> \o DumpItems(Tail(s))

DumpPairs(p) ==
    IF p = <<>> THEN <<>>
    ELSE LET one == Quote(p[1][1]) \o <<":", " ">> \o Dumps(p[1][2]) IN
         IF Len(p) = 1 THEN one
         ELSE one \o <<",", " ">> \o DumpPairs(Tail(p))

--------------------------------------------------------------------------
(* base64.b64decode *)

B64Alphabet == <<
    "A", "B", "C", "D", "E", "F", "G", "H",
    "I", "J", "K", "L", "M", "N", "O", "P",
    "Q", "R", "S", "T", "U", "V", "W", "X",
    "Y", "Z", "a", "b", "c", "d", "e", "f",
    "g", "h", "i", "j", "k", "l", "m", "n",
    "o", "p", "q", "r", "s", "t", "u", "v",
    "w", "x", "y", "z", "0", "1", "2", "3",
    "4", "5", "6", "7", "8", "9", "+", "/">>

B64Chars == {B64Alphabet[i] : i \in 1..64}
B64Val == [c \in B64Chars |-> (CHOOSE i \in 1..64 : B64Alphabet[i] = c) - 1]
IsB64Char(c) == c \in B64Chars

\* base64.b64decode(x) with validate=False: characters outside the alphabet
\* are skipped, decoding stops at the padding that completes a quantum, and
\* an incomplete final quantum is an error
B64Decode(x) ==
    IF ~IsStr(x) THEN Raise("TypeError")
    ELSE
    LET s == x.s
        Pads == {p \in 1..Len(s) : s[p] = "="}
        DataBefore(p) == Cardinality({q \in 1..(p - 1) : IsB64Char(s[q])})
        PadsAt(p) == Cardinality({q \in Pads :
                                    q <= p /\ DataBefore(q) = DataBefore(p)})
        Stops == {p \in Pads : /\ DataBefore(p) % 4 >= 2
                               /\ (DataBefore(p) % 4) + PadsAt(p) >= 4}
        stop == IF Stops = {} THEN Len(s) + 1 ELSE SetMin(Stops)
        d == SelectSeq(SubSeq(s, 1, stop - 1), IsB64Char)
        n == Len(d)
        nbytes == (3 * (n \div 4))
                    + (IF n % 4 = 2 THEN 1 ELSE IF n % 4 = 3 THEN 2 ELSE 0)
        v(i) == B64Val[d[i]]
        byte(b) ==
            LET g == 4 * ((b - 1) \div 3) IN
            CASE (b - 1) % 3 = 0 -> (v(g + 1) * 4) + (v(g + 2) \div 16)
              [] (b - 1) % 3 = 1 -> ((v(g + 2) % 16) * 16) + (v(g + 3) \div 4)
              [] (b - 1) % 3 = 2 -> ((v(g + 3) % 4) * 64) + v(g + 4)
    IN IF Stops = {} /\ n % 4 # 0 THEN Raise("binascii.Error")
       ELSE Ok(Bytes([b \in 1..nbytes |-> byte(b)]))

--------------------------------------------------------------------------
(* utils/bedrock_utils.py *)

K_content == <<"c", "o", "n", "t", "e", "n", "t">>
K_text == <<"t", "e", "x", "t">>
K_output == <<"o", "u", "t", "p", "u", "t">>
K_message == <<"m", "e", "s", "s", "a", "g", "e">>
K_response == <<"r", "e", "s", "p", "o", "n", "s", "e">>
K_images == <<"i", "m", "a", "g", "e", "s">>
K_artifacts == <<"a", "r", "t", "i", "f", "a", "c", "t", "s">>
K_b64_json == <<"b", "6", "4", "_", "j", "s", "o", "n">>
K_base64 == <<"b", "a", "s", "e", "6", "4">>
K_data == <<"d", "a", "t", "a">>
K_title == <<"t", "i", "t", "l", "e">>
K_image_prompt == <<"i", "m", "a", "g", "e", "_", "p", "r", "o", "m", "p", "t">>
K_image_path == <<"i", "m", "a", "g", "e", "_", "p", "a", "t", "h">>
K_bullets == <<"b", "u", "l", "l", "e", "t", "s">>

\* bedrock.invoke_model either raises or returns a response whose body
\* _read_body decodes to a str
InvokeFailed == [fail |-> TRUE, body |-> <<>>]
Response(b) == [fail |-> FALSE, body |-> b]

NoMatch == [hit |-> FALSE]
Match(r) == [hit |-> TRUE, res |-> r]

\* rule 1: parsed['content'] is a list; its first element decides
ContentRule(parsed) ==
    IF HasKey(parsed, K_content) /\ IsList(Get(parsed, K_content)) THEN
        IF Len(Get(parsed, K_content).items) = 0 THEN Match(Raise("IndexError"))
        ELSE LET first == Get(parsed, K_content).items[1] IN
             IF IsDict(first) /\ HasKey(first, K_text)
               THEN Match(Ok(Get(first, K_text)))
             ELSE IF IsDict(first) /\ HasKey(first, K_content)
               THEN Match(Ok(Get(first, K_content)))
             ELSE NoMatch
    ELSE NoMatch

\* rule 2: a str under 'output'
OutputRule(parsed) ==
    IF HasKey(parsed, K_output) /\ IsStr(Get(parsed, K_output))
      THEN Match(Ok(Get(parsed, K_output)))
      ELSE NoMatch

TextKeys == <<K_message, K_text, K_response>>

\* rule 3: the first of 'message', 'text', 'response' holding a str
KeysRule(parsed) ==
    LET hits == {i \in 1..Len(TextKeys) :
                   /\ HasKey(parsed, TextKeys[i])
                   /\ IsStr(Get(parsed, TextKeys[i]))} IN
    IF hits = {} THEN NoMatch
    ELSE Match(Ok(Get(parsed, TextKeys[SetMin(hits)])))

\* text_from_parsed with the `output` rule tried before the `content` rule
text_from_parsed_OutputFirst(parsed) ==
    IF IsDict(parsed) /\ OutputRule(parsed).hit THEN OutputRule(parsed).res
    ELSE IF IsDict(parsed) /\ ContentRule(parsed).hit
           THEN ContentRule(parsed).res
    ELSE IF IsDict(parsed) /\ KeysRule(parsed).hit THEN KeysRule(parsed).res
    ELSE Ok(Str(Dumps(parsed)))

\* the shape rules applied to a parsed body, in the order of the code
text_from_parsed(parsed) ==
    IF IsDict(parsed) /\ ContentRule(parsed).hit THEN ContentRule(parsed).res
    ELSE IF IsDict(parsed) /\ OutputRule(parsed).hit
           THEN OutputRule(parsed).res
    ELSE IF IsDict(parsed) /\ KeysRule(parsed).hit THEN KeysRule(parsed).res
    ELSE Ok(Str(Dumps(parsed)))

generate_text(r) ==
    IF r.fail THEN Raise("InvocationError")
    ELSE IF ~Loads(r.body).ok THEN Ok(Str(r.body))
    ELSE text_from_parsed(Loads(r.body).val)

B64MinLen == 200

\* str.isalnum() of one ASCII character
IsAlnum(c) == c \in B64Chars \ {"+", "/"}

\* LooksLikeB64 with `>=` for `>`
LooksLikeB64_AtLeast(c) ==
    /\ Len(c) >= B64MinLen
    /\ \A i \in 1..Len(c) : IsAlnum(c[i]) \/ c[i] \in {"+", "/", "=", "\n"}

\* LooksLikeB64 without the character test
LooksLikeB64_LengthOnly(c) == Len(c) > B64MinLen

\* line 149: long string made of base64 characters
LooksLikeB64(c) ==
    /\ Len(c) > B64MinLen
    /\ \A i \in 1..Len(c) : IsAlnum(c[i]) \/ c[i] \in {"+", "/", "=", "\n"}

Values(d) == [i \in 1..Len(d.pairs) |-> d.pairs[i][2]]

RECURSIVE find_b64(_), FindFirst(_)
\* the nested helper of generate_image; None is Null
find_b64(obj) ==
    IF IsStr(obj) THEN (IF LooksLikeB64(obj.s) THEN obj ELSE Null)
    ELSE IF IsDict(obj) THEN FindFirst(Values(obj))
    ELSE IF IsList(obj) THEN FindFirst(obj.items)
    ELSE Null

\* the `for ...: res = find_b64(..); if res: return res` loops
FindFirst(seq) ==
    IF seq = <<>> THEN Null
    ELSE IF Truthy(find_b64(Head(seq))) THEN find_b64(Head(seq))
    ELSE FindFirst(Tail(seq))

\* parsed['images'] is a non-empty list
ImagesRule(parsed) ==
    IF /\ HasKey(parsed, K_images)
       /\ IsList(Get(parsed, K_images))
       /\ Truthy(Get(parsed, K_images)) THEN
        LET b64 == Get(parsed, K_images).items[1] IN
        IF IsDict(b64) /\ HasKey(b64, K_b64_json)
          THEN Match(B64Decode(Get(b64, K_b64_json)))
          ELSE Match(B64Decode(b64))
    ELSE NoMatch

ArtifactKeys == <<K_b64_json, K_base64, K_data>>

\* parsed['artifacts'] is a non-empty list
ArtifactsRule(parsed) ==
    IF /\ HasKey(parsed, K_artifacts)
       /\ IsList(Get(parsed, K_artifacts))
       /\ Truthy(Get(parsed, K_artifacts)) THEN
        LET art == Get(parsed, K_artifacts).items[1]
            hits == {i \in 1..Len(ArtifactKeys) : HasKey(art, ArtifactKeys[i])}
        IN
        IF IsDict(art) /\ hits # {}
          THEN Match(B64Decode(Get(art, ArtifactKeys[SetMin(hits)])))
        ELSE IF IsStr(art) THEN Match(B64Decode(art))
        ELSE NoMatch
    ELSE NoMatch

\* image_from_parsed with `artifacts` tried before `images`
image_from_parsed_ArtifactsFirst(parsed) ==
    IF IsDict(parsed) /\ ArtifactsRule(parsed).hit
      THEN ArtifactsRule(parsed).res
    ELSE IF IsDict(parsed) /\ ImagesRule(parsed).hit
           THEN ImagesRule(parsed).res
    ELSE IF Truthy(find_b64(parsed)) THEN B64Decode(find_b64(parsed))
    ELSE Raise("ValueError")

\* the shape rules applied to a parsed body, then the recursive search
image_from_parsed(parsed) ==
    IF IsDict(parsed) /\ ImagesRule(parsed).hit THEN ImagesRule(parsed).res
    ELSE IF IsDict(parsed) /\ ArtifactsRule(parsed).hit
           THEN ArtifactsRule(parsed).res
    ELSE IF Truthy(find_b64(parsed)) THEN B64Decode(find_b64(parsed))
    ELSE Raise("ValueError")

generate_image(r) ==
    IF r.fail THEN Raise("InvocationError")
    ELSE IF ~Loads(r.body).ok THEN
        (IF B64Decode(Str(r.body)).ok THEN B64Decode(Str(r.body))
         ELSE Raise("ValueError"))
    ELSE image_from_parsed(Loads(r.body).val)

--------------------------------------------------------------------------
(* Response bodies the services are taken to return *)

Absent == [t |-> "absent"]
IsPresent(e) == e[2].t # "absent"

\* a mapping with the given (key, value) pairs, less the absent ones
MkDict(p) == Dict(SelectSeq(p, IsPresent))

Reverse(s) == [i \in 1..Len(s) |-> s[Len(s) + 1 - i]]
BothOrders(p) == {MkDict(p), MkDict(Reverse(p))}

\* a list whose first element is f, padded with up to MaxItems - 1 fillers
ListsFrom(f, filler) == {List(<<f>> \o Rep(filler, n)) : n \in 0..(MaxItems - 1)}

K_other == <<"o", "t", "h", "e", "r">>
K_x == <<"x">>
K_y == <<"y">>

TextLeaves ==
    {Str(<<"a">>), Str(<<>>), Str(<<"[", "{", "}", "]">>),
     Str(<<"\"", "\n", "\\">>), Num(5), Null, List(<<>>)}

TextFirsts ==
    {Dict(<< <<K_text, x>> >>) : x \in TextLeaves}
      \cup {Dict(<< <<K_content, x>> >>) : x \in TextLeaves}
      \cup BothOrders(<< <<K_text, Str(<<"a">>)>>, <<K_content, Str(<<"b">>)>> >>)
      \cup {Dict(<< <<K_other, Str(<<"a">>)>> >>), Dict(<<>>),
            Str(<<"a">>), Num(5), Null, List(<< Str(<<"a">>) >>)}

TextContents ==
    {Absent, Str(<<"c">>), Num(5), Dict(<< <<K_text, Str(<<"a">>)>> >>),
     List(<<>>)}
      \cup UNION {ListsFrom(f, Dict(<< <<K_text, Str(<<"z">>)>> >>)) :
                    f \in TextFirsts}

TextOutputs == {Absent, Str(<<"o">>), Num(7)}
TextMessages == {Absent, Str(<<"m">>), Null}
TextTexts == {Absent, Str(<<"t">>), List(<<Str(<<"t">>)>>)}
TextResponsesVals == {Absent, Str(<<"r">>)}

TextMappings ==
    UNION {BothOrders(<< <<K_content, c>>, <<K_output, o>>, <<K_message, m>>,
                         <<K_text, t>>, <<K_response, r>> >>) :
             c \in TextContents, o \in TextOutputs, m \in TextMessages,
             t \in TextTexts, r \in TextResponsesVals}

\* bodies that are not JSON
PlainTexts ==
    {<<>>, <<"h", "i">>, <<"x", "[", "{", "}", "]">>,
     <<"{", "\"", "o", "u", "t", "p", "u", "t", "\"", ":">>}

TextServiceOutcomes ==
    {InvokeFailed}
      \cup {Response(b) : b \in PlainTexts}
      \cup {Response(Dumps(x)) : x \in TextMappings}
      \cup {Response(Dumps(x)) : x \in TextLeaves}
      \cup {Response(Dumps(List(<<x>>))) : x \in TextFirsts}

--------------------------------------------------------------------------
(* The text path on its own: one call of generate_text *)

NoResponse == [kind |-> "none", status |-> 0, msg |-> ""]

Idle ==
    /\ form = [topic |-> Null, slides |-> Null]
    /\ topic = <<>>
    /\ outline_text = Null
    /\ attempts = <<>>
    /\ data = Null
    /\ idx = 0
    /\ imgFailed = {}
    /\ calls = <<>>
    /\ pptArg = Null
    /\ response = NoResponse

hvars == <<form, topic, outline_text, attempts, data, idx, imgFailed, calls,
           pptArg, response>>

InitText ==
    /\ mode = "text"
    /\ pc = "call"
    /\ resp \in TextServiceOutcomes
    /\ result = Null
    /\ Idle

TextCall ==
    /\ mode = "text"
    /\ pc = "call"
    /\ result' = generate_text(resp)
    /\ pc' = "returned"
    /\ UNCHANGED <<mode, resp, hvars>>

NextText == TextCall

SpecText == InitText /\ [][NextText]_vars

\* the parsed body of the response under test
Parsed == Loads(resp.body).val

TextReturned ==
    /\ mode = "text"
    /\ pc = "returned"
    /\ ~resp.fail

TextFromMapping ==
    /\ TextReturned
    /\ Loads(resp.body).ok
    /\ IsDict(Parsed)

HasStrAt(k) == HasKey(Parsed, k) /\ IsStr(Get(Parsed, k))

ContentIsNonEmptyList ==
    /\ HasKey(Parsed, K_content)
    /\ IsList(Get(Parsed, K_content))
    /\ Len(Get(Parsed, K_content).items) >= 1

ContentFirst == Get(Parsed, K_content).items[1]

\* the `content` rule is present but does not apply, in one of the ways the
\* claim lists
ContentUnmatched ==
    /\ HasKey(Parsed, K_content)
    /\ \/ ~IsList(Get(Parsed, K_content))
       \/ /\ ContentIsNonEmptyList
          /\ \/ ~IsDict(ContentFirst)
             \/ /\ ~HasKey(ContentFirst, K_text)
                /\ ~HasKey(ContentFirst, K_content)

\* what rules b and c and the final re-serialization give
LaterRules ==
    IF HasStrAt(K_output) THEN Ok(Get(Parsed, K_output))
    ELSE IF HasStrAt(K_message) THEN Ok(Get(Parsed, K_message))
    ELSE IF HasStrAt(K_text) THEN Ok(Get(Parsed, K_text))
    ELSE IF HasStrAt(K_response) THEN Ok(Get(Parsed, K_response))
    ELSE Ok(Str(Dumps(Parsed)))

\* C2: after a successful invocation generate_text returns a str and raises
\* nothing, whatever the body.  (The code raises IndexError on an empty
\* `content` list and returns a non-str `text`/`content` value as it is.)
C2_TextAlwaysString ==
    TextReturned => (result.ok /\ IsStr(result.val))

\* C5: the shape rules apply in the order content, output, message, text,
\* response: a body {content:[{text: S}, ...]} gives exactly S whatever other
\* keys it has; without a usable `content` rule (key absent, value not a
\* list, first element not a mapping or a mapping with neither `text` nor
\* `content`) a str `output` wins, then the first of message, text, response
\* holding a str.
C5_RulePriority ==
    /\ (TextFromMapping /\ ContentIsNonEmptyList /\ IsDict(ContentFirst)
          /\ HasKey(ContentFirst, K_text))
         => result = Ok(Get(ContentFirst, K_text))
    /\ (TextFromMapping /\ (~HasKey(Parsed, K_content) \/ ContentUnmatched))
         => result = LaterRules

\* a {content:[{text: S}]} body that also carries str output and message
C5_Witness ==
    /\ TextFromMapping
    /\ ContentIsNonEmptyList
    /\ IsDict(ContentFirst)
    /\ HasKey(ContentFirst, K_text)
    /\ HasStrAt(K_output)
    /\ HasStrAt(K_message)
    /\ result = Ok(Get(ContentFirst, K_text))
    /\ result # Ok(Get(Parsed, K_output))

--------------------------------------------------------------------------
(* The image path on its own: one call of generate_image *)

\* short payloads: "QUJD" is ABC, "QUJE" is ABD, "QUJG" is ABF, "QUJH" is
\* ABG, "QUJ" has an incomplete last quantum
PayA == Str(<<"Q", "U", "J", "D">>)
PayB == Str(<<"Q", "U", "J", "E">>)
PayC == Str(<<"Q", "U", "J", "G">>)
PayD == Str(<<"Q", "U", "J", "H">>)
PayBad == Str(<<"Q", "U", "J">>)

\* long strings around the length the recursive search asks for
LongA == Str(Rep("A", B64MinLen + 4))
LongB == Str(Rep("B", B64MinLen) \o <<"+", "/", "\n", "Q", "Q", "=", "=">>)
LongOdd == Str(Rep("A", B64MinLen + 1))
LongExact == Str(Rep("A", B64MinLen))
LongDash == Str(Rep("A", B64MinLen + 3) \o <<"-">>)

ImageFirsts ==
    {PayA, PayBad, LongA, Num(5), Null, Dict(<<>>),
     Dict(<< <<K_b64_json, PayB>> >>),
     Dict(<< <<K_b64_json, Num(5)>> >>),
     Dict(<< <<K_data, PayB>> >>)}

ImagesVals ==
    {Absent, List(<<>>), PayA}
      \cup UNION {ListsFrom(f, PayD) : f \in ImageFirsts}

ArtifactFirsts ==
    {PayC, Num(5), Dict(<<>>), Dict(<< <<K_other, LongA>> >>),
     Dict(<< <<K_data, Null>> >>)}
      \cup UNION {BothOrders(<< <<K_b64_json, a>>, <<K_base64, b>>,
                               <<K_data, c>> >>) :
                    a \in {Absent, PayA}, b \in {Absent, PayB},
                    c \in {Absent, PayC}}

ArtifactsVals ==
    {Absent, List(<<>>), PayC}
      \cup UNION {ListsFrom(f, PayD) : f \in ArtifactFirsts}

\* bodies exercising the two top-level shapes
ShapeBodies ==
    UNION {BothOrders(<< <<K_images, i>>, <<K_artifacts, a>>, <<K_other, o>> >>) :
             i \in ImagesVals, a \in ArtifactsVals, o \in {Absent, LongB}}

SearchLeaves == {LongA, LongB, LongExact, LongDash, Num(5)}
SiblingLeaves == {LongA, LongExact, Num(5)}

\* values nested up to d levels of lists and mappings
RECURSIVE Nested(_)
Nested(d) ==
    IF d = 0 THEN SearchLeaves
    ELSE SearchLeaves
           \cup {List(<<a, b>>) : a \in Nested(d - 1), b \in SiblingLeaves}
           \cup {Dict(<< <<K_x, a>>, <<K_y, b>> >>) :
                   a \in SiblingLeaves, b \in Nested(d - 1)}

\* bodies without a recognized top-level key, or with one that does not apply
SearchBodies ==
    Nested(MaxDepth)
      \cup {LongOdd, PayA, Null, Bool(TRUE), List(<<>>), Dict(<<>>),
            List(<<PayA, LongOdd, LongA>>)}
      \cup {Dict(<< <<K_images, List(<<>>)>>, <<K_x, x>> >>) :
              x \in Nested(1)}
      \cup {Dict(<< <<K_artifacts, List(<< Dict(<< <<K_x, x>> >>) >>)>> >>) :
              x \in Nested(1)}

\* bodies that are not JSON
RawImages ==
    {PayA.s, PayBad.s, <<>>, <<"[", "Q", "U", "J", "D">>, LongA.s}

ImageServiceOutcomes ==
    {InvokeFailed}
      \cup {Response(b) : b \in RawImages}
      \cup {Response(Dumps(x)) : x \in ShapeBodies \cup SearchBodies}

InitImage ==
    /\ mode = "image"
    /\ pc = "call"
    /\ resp \in ImageServiceOutcomes
    /\ result = Null
    /\ Idle

ImageCall ==
    /\ mode = "image"
    /\ pc = "call"
    /\ result' = generate_image(resp)
    /\ pc' = "returned"
    /\ UNCHANGED <<mode, resp, hvars>>

NextImage == ImageCall

SpecImage == InitImage /\ [][NextImage]_vars

ImageFromJson ==
    /\ mode = "image"
    /\ pc = "returned"
    /\ ~resp.fail
    /\ Loads(resp.body).ok

NonEmptyListAt(k) ==
    /\ IsDict(Parsed)
    /\ HasKey(Parsed, k)
    /\ IsList(Get(Parsed, k))
    /\ Len(Get(Parsed, k).items) >= 1

ImagesFirst == Get(Parsed, K_images).items[1]
ArtifactsFirst == Get(Parsed, K_artifacts).items[1]

Unwrapped(e) ==
    IF IsDict(e) /\ HasKey(e, K_b64_json) THEN Get(e, K_b64_json) ELSE e

HasArtifactKey(e) ==
    HasKey(e, K_b64_json) \/ HasKey(e, K_base64) \/ HasKey(e, K_data)

FirstArtifactValue(e) ==
    IF HasKey(e, K_b64_json) THEN Get(e, K_b64_json)
    ELSE IF HasKey(e, K_base64) THEN Get(e, K_base64)
    ELSE Get(e, K_data)

\* every string value of a structure, depth first: mapping values in
\* iteration order, sequence elements in order
RECURSIVE StringsIn(_), StringsInAll(_)
StringsIn(obj) ==
    IF IsStr(obj) THEN <<obj>>
    ELSE IF IsDict(obj) THEN StringsInAll(Values(obj))
    ELSE IF IsList(obj) THEN StringsInAll(obj.items)
    ELSE <<>>

StringsInAll(seq) ==
    IF seq = <<>> THEN <<>>
    ELSE StringsIn(Head(seq)) \o StringsInAll(Tail(seq))

OnlyB64Text(x) ==
    \A i \in 1..Len(x.s) : x.s[i] \in B64Chars \cup {"=", "\n"}

LongerThanMin(x) == Len(x.s) > B64MinLen /\ OnlyB64Text(x)
AtLeastMin(x) == Len(x.s) >= B64MinLen /\ OnlyB64Text(x)

Candidates == SelectSeq(StringsIn(Parsed), LongerThanMin)
CandidatesAtLeast == SelectSeq(StringsIn(Parsed), AtLeastMin)

\* what the recursive search gives when it is reached
SearchOutcome ==
    IF Candidates # <<>> THEN B64Decode(Candidates[1]) ELSE Raise("ValueError")

NoTopLevelKey ==
    IsDict(Parsed) => (~HasKey(Parsed, K_images) /\ ~HasKey(Parsed, K_artifacts))

ArtifactsShape ==
    /\ NonEmptyListAt(K_artifacts)
    /\ \/ IsStr(ArtifactsFirst)
       \/ IsDict(ArtifactsFirst) /\ HasArtifactKey(ArtifactsFirst)

\* C6: `images` is resolved before `artifacts`: a non-empty `images` list
\* gives the base64 decoding of its first element (through `b64_json` when
\* that element is a mapping holding it) whatever `artifacts` holds; otherwise
\* a non-empty `artifacts` list gives the decoding of its first element's
\* first present key among b64_json, base64, data, or of the element itself
\* when it is a str; a first element that is a mapping with none of the three
\* keys leaves the result to the recursive search.
C6_ShapeOrder ==
    /\ (ImageFromJson /\ NonEmptyListAt(K_images))
         => result = B64Decode(Unwrapped(ImagesFirst))
    /\ (ImageFromJson /\ ~NonEmptyListAt(K_images)
          /\ NonEmptyListAt(K_artifacts))
         => result =
              IF IsDict(ArtifactsFirst) /\ HasArtifactKey(ArtifactsFirst)
                THEN B64Decode(FirstArtifactValue(ArtifactsFirst))
              ELSE IF IsStr(ArtifactsFirst) THEN B64Decode(ArtifactsFirst)
              ELSE SearchOutcome

\* both shapes present with different payloads: the `images` payload is the
\* one returned
C6_Witness ==
    /\ ImageFromJson
    /\ NonEmptyListAt(K_images)
    /\ ArtifactsShape
    /\ IsDict(ArtifactsFirst)
    /\ IsDict(ImagesFirst)
    /\ result.ok
    /\ result = B64Decode(Get(ImagesFirst, K_b64_json))
    /\ result # B64Decode(FirstArtifactValue(ArtifactsFirst))

\* C7 as stated: a body without `images`/`artifacts` holding a string of at
\* least 200 base64-text characters yields the decoding of the first such
\* string in depth-first order.
C7_SearchAtLeast200 ==
    (ImageFromJson /\ NoTopLevelKey /\ CandidatesAtLeast # <<>>)
      => result = B64Decode(CandidatesAtLeast[1])

\* C7 amended: the same for strings of more than 200 characters; the result
\* is what base64-decoding the first such string gives.
C7_SearchFindsFirst ==
    (ImageFromJson /\ NoTopLevelKey /\ Candidates # <<>>)
      => result = B64Decode(Candidates[1])

\* two different qualifying strings behind a 200-character one: the first
\* qualifying string in depth-first order is the one decoded
C7_Witness ==
    /\ ImageFromJson
    /\ NoTopLevelKey
    /\ Len(Candidates) >= 2
    /\ CandidatesAtLeast[1] # Candidates[1]
    /\ result.ok
    /\ result = B64Decode(Candidates[1])
    /\ result # B64Decode(Candidates[2])

\* C8: a JSON body in which neither top-level shape applies and no string
\* qualifies for the search ends in the decode error raised by generate_image
\* itself: no bytes, no other kind of error.
C8_NoPayloadIsValueError ==
    (ImageFromJson /\ ~NonEmptyListAt(K_images) /\ ~ArtifactsShape
       /\ Candidates = <<>>)
      => result = Raise("ValueError")

\* a body holding long strings, none of which qualifies
C8_Witness ==
    /\ ImageFromJson
    /\ ~NonEmptyListAt(K_images)
    /\ ~ArtifactsShape
    /\ Candidates = <<>>
    /\ Len(CandidatesAtLeast) >= 1
    /\ \E i \in 1..Len(StringsIn(Parsed)) :
          /\ Len(StringsIn(Parsed)[i].s) > B64MinLen
          /\ ~OnlyB64Text(StringsIn(Parsed)[i])
    /\ result = Raise("ValueError")

--------------------------------------------------------------------------
(* Requests and service responses the handler is exercised with *)

TopicFields == {Null, Str(<<>>), Str(<<" ">>), Str(<<" ", "t", " ">>)}
SlidesFields == {Null, Str(<<"3">>), Str(<<"a">>), Str(<<>>)}

SlideVals ==
    {Dict(<< <<K_title, Str(<<"T">>)>>, <<K_bullets, List(<<Str(<<"b">>)>>)>> >>),
     Dict(<< <<K_bullets, Num(5)>> >>),
     Num(5)}

RECURSIVE SeqsUpTo(_, _)
\* the sequences over S of length at most n
SeqsUpTo(S, n) ==
    IF n = 0 THEN {<<>>}
    ELSE SeqsUpTo(S, n - 1)
           \cup {Append(q, x) : q \in {p \in SeqsUpTo(S, n - 1) : Len(p) = n - 1},
                                x \in S}

\* outlines as the model is asked to write them
Outlines == {Dumps(List(q)) : q \in SeqsUpTo(SlideVals, MaxSlides)}

\* short model outputs, to be wrapped in other text
AffixCores ==
    {Dumps(List(<<>>)), Dumps(List(<<Dict(<<>>)>>)),
     Dumps(List(<<Dict(<<>>), Num(5)>>)),
     Dumps(Dict(<< <<K_x, List(<<Dict(<<>>)>>)>> >>)), <<"5">>, <<>>,
     <<"{", "}", ",">>}

Affixes == SeqsUpTo({"[", "]", "x"}, MaxAffix)

WrappedTexts == {a \o c \o b : a \in Affixes, c \in AffixCores, b \in Affixes}

TextEnvelope(x) == Dict(<< <<K_content, List(<< Dict(<< <<K_text, x>> >>) >>)>> >>)

HandlerTextOutcomes ==
    {InvokeFailed}
      \cup {Response(c) : c \in WrappedTexts}
      \cup {Response(Dumps(TextEnvelope(Str(c)))) : c \in Outlines \cup WrappedTexts}
      \cup {Response(Dumps(TextEnvelope(Num(5)))),
            Response(Dumps(TextEnvelope(List(<<Dict(<<>>)>>)))),
            Response(Dumps(Dict(<< <<K_content, List(<<>>)>> >>)))}

HandlerImageOutcomes ==
    {InvokeFailed,
     Response(Dumps(Dict(<< <<K_images, List(<<PayA>>)>> >>))),
     Response(Dumps(Dict(<< <<K_images, List(<<Num(5)>>)>> >>))),
     Response(Dumps(Dict(<< <<K_x, PayA>> >>)))}

--------------------------------------------------------------------------
(* utils/ppt_utils.py *)

\* "\n".join(s.get('bullets', [])) accepts an iterable of str: a list of
\* str, a str, or a mapping (its keys)
BulletsJoin(s) ==
    IF ~HasKey(s, K_bullets) THEN TRUE
    ELSE LET b == Get(s, K_bullets) IN
         \/ IsStr(b)
         \/ IsDict(b)
         \/ IsList(b) /\ \A i \in 1..Len(b.items) : IsStr(b.items[i])

PptPath == Str(<<"o", "u", "t", "p", "u", "t", "/", "p", "r", "e", "s", "e", "n", "t", "a", "t", "i", "o", "n", ".", "p", "p", "t", "x">>)

\* create_ppt(slides); saveOk tells whether prs.save succeeds.  A failure to
\* set the title or to add a picture is caught inside the loop.
create_ppt(slides, saveOk) ==
    IF \E i \in 1..Len(slides.items) : ~BulletsJoin(slides.items[i])
      THEN Raise("TypeError")
    ELSE IF ~saveOk THEN Raise("OSError")
    ELSE Ok(PptPath)

--------------------------------------------------------------------------
(* app.py: generate() *)

IsSpace(c) == c \in {" ", "\n", "\t", "\r"}

RECURSIVE LStrip(_)
LStrip(c) == IF c # <<>> /\ IsSpace(Head(c)) THEN LStrip(Tail(c)) ELSE c

\* str.strip()
Strip(c) == Reverse(LStrip(Reverse(LStrip(c))))

\* request.form.get(name, default)
FormGet(field, default) == IF field = Null THEN default ELSE field

\* int(x) of an int or of a str of decimal digits (surrounding whitespace
\* allowed)
IntOf(x) ==
    IF x.t = "num" THEN Ok(x.n)
    ELSE IF Strip(x.s) # <<>> /\ \A i \in 1..Len(Strip(x.s)) : IsDigit(Strip(x.s)[i])
      THEN Ok(ScanInt(Strip(x.s), 1, 0).val.n)
    ELSE Raise("ValueError")

\* str.find(ch) and str.rfind(ch): 0-based index, -1 when absent
Find(c, ch) ==
    IF \E i \in 1..Len(c) : c[i] = ch
      THEN SetMin({i \in 1..Len(c) : c[i] = ch}) - 1
      ELSE -1

RFind(c, ch) ==
    IF \E i \in 1..Len(c) : c[i] = ch
      THEN (CHOOSE i \in 1..Len(c) :
              c[i] = ch /\ \A j \in (i + 1)..Len(c) : c[j] # ch) - 1
      ELSE -1

\* outline_text[start:end+1]
Slice(c, start, end) == SubSeq(c, start + 1, end + 1)

Status(code, m) == [kind |-> "status", status |-> code, msg |-> m]
Download(path) == [kind |-> "download", status |-> 200, msg |-> "file"]
\* an exception that leaves generate() uncaught
Escapes(e) == [kind |-> "exception", status |-> 0, msg |-> e]

\* lines 57-67: a json.loads outcome and the isinstance(data, list) check
OutlineOf(parsed, tried) ==
    IF ~parsed.ok THEN
        [tried |-> tried, ok |-> FALSE,
         end |-> Status(500, "Failed to parse model output as JSON")]
    ELSE IF ~IsList(parsed.val) THEN
        [tried |-> tried, ok |-> FALSE,
         end |-> Status(500, "Model output is not a list of slides")]
    ELSE [tried |-> tried, ok |-> TRUE, val |-> parsed.val]

\* lines 52-63: the except clause, start and end being the positions found
BracketFallback(text, start, end) ==
    IF start # -1 /\ end # -1 /\ end > start
      THEN OutlineOf(Loads(Slice(text.s, start, end)),
                     <<text, Str(Slice(text.s, start, end))>>)
      ELSE [tried |-> <<text>>, ok |-> FALSE,
            end |-> Status(500, "Model did not return a JSON array")]

\* lines 49-63: the direct json.loads outcome, else the except clause
DirectOrFallback(text, direct) ==
    IF direct.ok THEN OutlineOf(direct, <<text>>)
    ELSE BracketFallback(text, Find(text.s, "["), RFind(text.s, "]"))

\* lines 48-67: the outline parse.  Gives the json.loads inputs tried, and
\* either the parsed list or the way the request ends.
ParseOutline(text) ==
    IF ~IsStr(text) THEN
        \* json.loads raises TypeError, caught; text.find raises
        [tried |-> <<text>>, ok |-> FALSE, end |-> Escapes("AttributeError")]
    ELSE DirectOrFallback(text, Loads(text.s))

\* f"output/{uuid.uuid4().hex}.png": a name no other slide gets
ImgPath(i) == Str(<<"o", "u", "t", "p", "u", "t", "/">> \o DigitsOf(i) \o <<".", "p", "n", "g">>)

\* ImagePathFor with a failed write of the file going unnoticed
ImagePathFor_WriteUnchecked(r, writeOk, i) ==
    IF ~r.ok THEN Null ELSE ImgPath(i)

\* the value the loop stores under 'image_path' for one slide
ImagePathFor(r, writeOk, i) ==
    IF ~r.ok THEN Null
    ELSE IF writeOk THEN ImgPath(i)
    ELSE Null

SetSlide(d, i, x) ==
    List([j \in 1..Len(d.items) |-> IF j = i THEN x ELSE d.items[j]])

\* lines 20-24
Validate ==
    /\ mode = "request"
    /\ pc = "start"
    /\ topic' = Strip(FormGet(form.topic, Str(<<>>)).s)
    /\ IF ~IntOf(FormGet(form.slides, Num(5))).ok
         THEN pc' = "done" /\ response' = Escapes("ValueError")
         ELSE IF topic' = <<>>
           THEN pc' = "done"
                /\ response' = Status(400, "Please provide a topic")
         ELSE pc' = "text" /\ response' = response
    /\ UNCHANGED <<mode, form, outline_text, attempts, data, idx, imgFailed,
                   calls, pptArg, resp, result>>

\* lines 42-46
TextStep ==
    /\ mode = "request"
    /\ pc = "text"
    /\ \E r \in HandlerTextOutcomes :
         /\ resp' = r
         /\ result' = generate_text(r)
    /\ calls' = Append(calls, <<"text", 0>>)
    /\ IF result'.ok
         THEN pc' = "parse"
              /\ outline_text' = result'.val
              /\ response' = response
         ELSE pc' = "done"
              /\ outline_text' = outline_text
              /\ response' = Status(500, "Text generation failed")
    /\ UNCHANGED <<mode, form, topic, attempts, data, idx, imgFailed, pptArg>>

\* lines 48-67
ParseStep ==
    /\ mode = "request"
    /\ pc = "parse"
    /\ \E r \in {ParseOutline(outline_text)} :
         /\ attempts' = r.tried
         /\ IF r.ok
              THEN pc' = "loop"
                   /\ data' = r.val
                   /\ idx' = 1
                   /\ response' = response
              ELSE pc' = "done"
                   /\ response' = r.end
                   /\ UNCHANGED <<data, idx>>
    /\ UNCHANGED <<mode, form, topic, outline_text, imgFailed, calls, pptArg,
                   resp, result>>

\* LoopStep calling the image service again for a slide whose call failed
LoopStep_Retry ==
    /\ mode = "request"
    /\ pc = "loop"
    /\ idx <= Len(data.items)
    /\ IF ~IsDict(data.items[idx])
         THEN \* s.get raises AttributeError outside any try
              /\ pc' = "done"
              /\ response' = Escapes("AttributeError")
              /\ UNCHANGED <<data, idx, imgFailed, calls, resp, result>>
         ELSE /\ \E r \in HandlerImageOutcomes, writeOk \in BOOLEAN :
                   /\ resp' = r
                   /\ result' = generate_image(r)
                   /\ data' = SetSlide(data, idx,
                                SetKey(data.items[idx], K_image_path,
                                       ImagePathFor(result', writeOk, idx)))
                   /\ imgFailed' = IF result'.ok /\ writeOk THEN imgFailed
                                    ELSE imgFailed \cup {idx}
              /\ calls' = Append(calls, <<"image", idx>>)
              /\ idx' = IF result'.ok THEN idx + 1 ELSE idx
              /\ UNCHANGED <<pc, response>>
    /\ UNCHANGED <<mode, form, topic, outline_text, attempts, pptArg>>

\* lines 70-88: one iteration of the per-slide loop
LoopStep ==
    /\ mode = "request"
    /\ pc = "loop"
    /\ idx <= Len(data.items)
    /\ IF ~IsDict(data.items[idx])
         THEN \* s.get raises AttributeError outside any try
              /\ pc' = "done"
              /\ response' = Escapes("AttributeError")
              /\ UNCHANGED <<data, idx, imgFailed, calls, resp, result>>
         ELSE /\ \E r \in HandlerImageOutcomes, writeOk \in BOOLEAN :
                   /\ resp' = r
                   /\ result' = generate_image(r)
                   /\ data' = SetSlide(data, idx,
                                SetKey(data.items[idx], K_image_path,
                                       ImagePathFor(result', writeOk, idx)))
                   /\ imgFailed' = IF result'.ok /\ writeOk THEN imgFailed
                                    ELSE imgFailed \cup {idx}
              /\ calls' = Append(calls, <<"image", idx>>)
              /\ idx' = idx + 1
              /\ UNCHANGED <<pc, response>>
    /\ UNCHANGED <<mode, form, topic, outline_text, attempts, pptArg>>

\* lines 90-97
PptStep ==
    /\ mode = "request"
    /\ pc = "loop"
    /\ idx > Len(data.items)
    /\ pptArg' = data
    /\ calls' = Append(calls, <<"ppt", 0>>)
    /\ \E saveOk \in BOOLEAN :
         /\ result' = create_ppt(data, saveOk)
         /\ response' = IF result'.ok THEN Download(result'.val)
                         ELSE Status(500, "Failed to create PPT")
    /\ pc' = "done"
    /\ UNCHANGED <<mode, form, topic, outline_text, attempts, data, idx,
                   imgFailed, resp>>

Init ==
    /\ mode = "request"
    /\ pc = "start"
    /\ form \in [topic : TopicFields, slides : SlidesFields]
    /\ topic = <<>>
    /\ outline_text = Null
    /\ attempts = <<>>
    /\ data = Null
    /\ idx = 0
    /\ imgFailed = {}
    /\ calls = <<>>
    /\ pptArg = Null
    /\ response = NoResponse
    /\ resp = InvokeFailed
    /\ result = Null

Next == Validate \/ TextStep \/ ParseStep \/ LoopStep \/ PptStep

Spec == Init /\ [][Next]_vars

--------------------------------------------------------------------------
(* Properties of the request handler *)

InRequest == mode = "request"

AllMappings(d) == \A j \in 1..Len(d.items) : IsDict(d.items[j])

InLoopOrAfter == InRequest /\ IsList(data) /\ idx >= 1

Called(kind) == \E n \in 1..Len(calls) : calls[n][1] = kind

\* the outline as it was parsed, before the loop touched it
ParsedOutline == ParseOutline(outline_text).val

\* a slide without the key the loop adds
WithoutPath(d) == Dict(SelectSeq(d.pairs, LAMBDA e : e[1] # K_image_path))

\* data without the keys the loop added
DataAsParsed ==
    List([j \in 1..Len(data.items) |->
            IF IsDict(data.items[j]) THEN WithoutPath(data.items[j])
            ELSE data.items[j]])

\* C1: for an outline of slide mappings, whatever image steps fail, each
\* iteration only sets image_path of its own slide and moves on to the next;
\* a processed slide has image_path null exactly when its image step failed
\* and a path otherwise; past the last slide the next step calls create_ppt
\* with all the slides.
C1_ImageFailuresAreLocal ==
    /\ [](InLoopOrAfter /\ AllMappings(data) =>
            /\ \A j \in 1..(idx - 1) :
                  /\ HasKey(data.items[j], K_image_path)
                  /\ (Get(data.items[j], K_image_path) = Null) <=> (j \in imgFailed)
                  /\ (j \notin imgFailed) => IsStr(Get(data.items[j], K_image_path))
            /\ \A j \in idx..Len(data.items) : data.items[j] = ParsedOutline.items[j]
            /\ Called("ppt") =>
                  /\ idx = Len(data.items) + 1
                  /\ pptArg = data
                  /\ Len(pptArg.items) = Len(ParsedOutline.items))
    /\ [][(InLoopOrAfter /\ pc = "loop" /\ idx <= Len(data.items)
            /\ AllMappings(data)) =>
             /\ pc' = "loop"
             /\ idx' = idx + 1
             /\ Len(data'.items) = Len(data.items)
             /\ \A j \in 1..Len(data.items) : j # idx => data'.items[j] = data.items[j]]_vars
    /\ [][(InLoopOrAfter /\ pc = "loop" /\ idx > Len(data.items)) =>
             /\ Called("ppt")'
             /\ pptArg' = data]_vars

\* three slides of which the first and the last failed, assembled
C1_Witness ==
    /\ InRequest
    /\ Called("ppt")
    /\ Len(pptArg.items) = 3
    /\ imgFailed = {1, 3}
    /\ Get(pptArg.items[1], K_image_path) = Null
    /\ IsStr(Get(pptArg.items[2], K_image_path))
    /\ Get(pptArg.items[3], K_image_path) = Null
    /\ response.kind = "download"

TopicGiven == Strip(FormGet(form.topic, Str(<<>>)).s) # <<>>

\* C3: a request whose topic is missing, empty or blank ends in status 400
\* whatever the other fields hold, and no collaborator is called.  (The code
\* converts `slides` with int() before it looks at the topic.)
C3_BlankTopicIs400 ==
    (InRequest /\ pc = "done" /\ ~TopicGiven)
      => (response.kind = "status" /\ response.status = 400 /\ calls = <<>>)

\* C4: a request with a topic ends in a download or in a 500 the handler
\* produced itself, never in an exception leaving the handler; when text
\* generation or outline parsing failed, no image and no assembly call was
\* made.  (The code lets int() of `slides`, .find on a non-str model output
\* and .get on a non-mapping outline element raise outside any try.)
C4_HandledOutcomes ==
    (InRequest /\ pc = "done" /\ TopicGiven)
      => /\ \/ response.kind = "download"
            \/ response.kind = "status" /\ response.status = 500
         /\ ~IsList(data) => (~Called("image") /\ ~Called("ppt"))

ParseTried == InRequest /\ attempts # <<>>

FirstOpen(c, i) == c[i] = "[" /\ \A n \in 1..(i - 1) : c[n] # "["
LastClose(c, j) == c[j] = "]" /\ \A n \in (j + 1)..Len(c) : c[n] # "]"

\* the text between the first `[` and the last `]`, when they are in this
\* order
Bracketed(c) ==
    {SubSeq(c, i, j) : <<i, j>> \in
       {q \in (1..Len(c)) \X (1..Len(c)) :
          q[1] < q[2] /\ FirstOpen(c, q[1]) /\ LastClose(c, q[2])}}

ParseError ==
    /\ pc = "done"
    /\ response \in {Status(500, "Model did not return a JSON array"),
                      Status(500, "Failed to parse model output as JSON")}

NotAList ==
    /\ pc = "done"
    /\ response = Status(500, "Model output is not a list of slides")

\* C9: the model text is parsed directly first; the text from the first `[`
\* to the last `]` is parsed only when that fails; the request ends in a
\* parse error when both fail or no `[` precedes a `]`, and in the
\* not-a-list error when the value obtained is not a list, so that a text
\* that parses directly as a non-list is rejected without a second attempt;
\* only a list reaches the per-slide loop.  (generate_text can hand over a
\* value that is not a str; the direct parse of it fails and .find then
\* raises outside any try instead of the parse error.)
C9_OutlineParsing ==
    /\ (ParseTried /\ pc = "done" /\ ~IsList(data)) => (ParseError \/ NotAList)
    /\ ParseTried =>
         /\ attempts[1] = outline_text
         /\ Len(attempts) <= 2
         /\ Len(attempts) = 2 =>
               /\ IsStr(outline_text)
               /\ ~Loads(outline_text.s).ok
               /\ attempts[2].s \in Bracketed(outline_text.s)
    /\ (ParseTried /\ IsStr(outline_text)) =>
         LET c == outline_text.s IN
         IF Loads(c).ok
           THEN /\ Len(attempts) = 1
                /\ IF IsList(Loads(c).val)
                     THEN IsList(data) /\ DataAsParsed = Loads(c).val
                     ELSE NotAList /\ ~IsList(data)
         ELSE IF Bracketed(c) = {} THEN ParseError /\ Len(attempts) = 1
         ELSE \A b \in Bracketed(c) :
                /\ attempts = <<outline_text, Str(b)>>
                /\ IF ~Loads(b).ok THEN ParseError
                   ELSE IF IsList(Loads(b).val)
                     THEN IsList(data) /\ DataAsParsed = Loads(b).val
                   ELSE NotAList /\ ~IsList(data)
    /\ (InRequest /\ (pc = "loop" \/ Called("image") \/ Called("ppt")))
         => IsList(data)

ImageCallsMade == Len(SelectSeq(calls, LAMBDA e : e[1] = "image"))

\* C10: within a request the text service is called once and first; the
\* image service is then called once per slide in outline order, each
\* slide's image_path being stored before the next call; no call is
\* repeated; create_ppt is called at most once, after the last slide, with
\* the slides of the parsed outline in their order.
C10_SequentialCalls ==
    InRequest =>
      /\ pc \in {"parse", "loop"} => calls # <<>>
      /\ calls # <<>> => calls[1] = <<"text", 0>>
      /\ \A n \in 2..Len(calls) : calls[n][1] # "text"
      /\ \A n \in 2..Len(calls) :
            \/ calls[n] = <<"image", n - 1>>
                 /\ n - 1 <= Len(data.items)
                 /\ HasKey(data.items[n - 1], K_image_path)
            \/ calls[n] = <<"ppt", 0>>
                 /\ n = Len(calls)
                 /\ n = Len(data.items) + 2
                 /\ pc = "done"
      /\ (IsList(data) /\ ~Called("ppt")) => ImageCallsMade = idx - 1
      /\ Called("ppt") =>
            /\ ImageCallsMade = Len(ParsedOutline.items)
            /\ Len(pptArg.items) = Len(ParsedOutline.items)
            /\ \A j \in 1..Len(pptArg.items) :
                  WithoutPath(pptArg.items[j]) = ParsedOutline.items[j]

\* a request that made every call: text, two images of which the first
\* failed at invocation, then the assembler
C10_Witness ==
    /\ InRequest
    /\ calls = << <<"text", 0>>, <<"image", 1>>, <<"image", 2>>, <<"ppt", 0>> >>
    /\ imgFailed = {1}
    /\ ParsedOutline.items[1] # ParsedOutline.items[2]

====
